---- MODULE Spec2Model ----
(***************************************************************************)
(* Governance Resource Finder (src/app.py): the draft-verify-repair loop   *)
(* of the "Find resources" run handler, with the URL extractor, the link   *)
(* checker, the metadata resolver and the table renderer it calls.         *)
(* Around it, the session: the passcode gate, the input length guard, the  *)
(* rate limiter and the "Reset app" button.                                *)
(*                                                                         *)
(* A URL string is a natural number in 1..NUrl.  A text returned by the    *)
(* generation service is a sequence of tokens (a bare URL with optional    *)
(* trailing punctuation, a markdown link, a malformed URL, a plain word).  *)
(***************************************************************************)
EXTENDS Integers, Sequences, FiniteSets, TLC

\* ------------------------------------------------------------------ bounds
NUrl == 8            \* URL strings that texts may mention: 1..NUrl
HeadLen == 3         \* URLs in the short draft HeadText
NSeeds == 2          \* set-iteration orders (hash seeds) considered
MaxVerified == 3     \* SpecMeta: longest verified-URL list
MaxItems == 3        \* SpecMeta: longest metadata response array
ExtractUrls == 2      \* SpecExtract: URL strings a text may mention
MaxTokens == 3        \* SpecExtract: longest text, in tokens
MaxAdmitted == 16    \* SpecSession: runs admitted over the session
MaxResets == 1       \* SpecSession: "Reset app" clicks

\* ------------------------------------------------------- program constants
MIN_GOOD == 6
MAX_RETRIES == 2
DRAFT_CAP == 60
RETRY_CAP == 40
ORDER_DEFAULT == 1000000000
WINDOW_SECONDS == 3600
MAX_RUNS_PER_WINDOW == 15
MAX_CHARS == 2000

URLs == 1..NUrl
\* a URL string the texts of a run never mention (fabricated by the service)
ForeignUrl == NUrl + 1
\* row.get("url") when the item has no "url" key
NoUrl == 0

\* ------------------------------------------------------------------- texts
Bare(u, p) == [kind |-> "bare", url |-> u, trail |-> p]
Md(u) == [kind |-> "md", url |-> u, trail |-> ""]
Malformed(u) == [kind |-> "malformed", url |-> u, trail |-> ""]
Word == [kind |-> "word", url |-> 0, trail |-> ""]

RECURSIVE BareRun(_, _)
BareRun(lo, hi) == IF lo > hi THEN <<>> ELSE <<Bare(lo, "")>> \o BareRun(lo + 1, hi)

EmptyText == <<Word>>
FullText == BareRun(1, NUrl)
HeadText == BareRun(1, HeadLen)
\* re-surfaces URLs of HeadText in both forms, with trailing punctuation,
\* beside a malformed URL and one fresh URL
MixedText == <<Md(HeadLen), Bare(HeadLen, "."), Word, Malformed(1),
               Bare(HeadLen + 1, ""), Bare(HeadLen - 1, ","), Md(HeadLen + 1)>>

GenTexts == {EmptyText, FullText, HeadText, MixedText}

\* ------------------------------------------------------------ extract_urls
\* a regex match: the matched string is url followed by trail
Raw(u, p, v) == [url |-> u, trail |-> p, valid |-> v]

\* re.findall(r"https?://[^\s)>\]]+", text)
Regex1(text) ==
    {Raw(text[i].url, text[i].trail, text[i].kind # "malformed") :
        i \in {j \in DOMAIN text : text[j].kind # "word"}}

\* re.findall(r"\((https?://[^)]+)\)", text)
Regex2(text) ==
    {Raw(text[i].url, "", TRUE) : i \in {j \in DOMAIN text : text[j].kind = "md"}}

TrailBit(p) == IF p = "" THEN 0 ELSE IF p = "." THEN 1 ELSE 2

\* position of a string in the iteration order of a Python set, which the
\* process's hash seed decides
HashKey(r, seed) ==
    LET k == 3 * r.url + TrailBit(r.trail)
    IN  IF seed = 1 THEN k
        ELSE IF seed = 2 THEN 0 - k
        ELSE IF r.url % 2 = 1 THEN k ELSE k + 3 * (NUrl + 2) * seed

RECURSIVE SetIter(_, _)
SetIter(S, seed) ==
    IF S = {} THEN <<>>
    ELSE LET m == CHOOSE x \in S : \A y \in S : HashKey(x, seed) <= HashKey(y, seed)
         IN  <<m>> \o SetIter(S \ {m}, seed)

SeqRange(s) == {s[i] : i \in DOMAIN s}

\* ExtractLoop without the test against cap
RECURSIVE ExtractLoopNoCap(_, _, _)
ExtractLoopNoCap(rest, cleaned, cap) ==
    IF rest = <<>> THEN cleaned
    ELSE LET r == Head(rest)
         IN  IF ~r.valid \/ r.url \in SeqRange(cleaned)
             THEN ExtractLoopNoCap(Tail(rest), cleaned, cap)
             ELSE ExtractLoopNoCap(Tail(rest), Append(cleaned, r.url), cap)

\* the for-loop of extract_urls over the remaining raw strings
RECURSIVE ExtractLoop(_, _, _)
ExtractLoop(rest, cleaned, cap) ==
    IF rest = <<>> THEN cleaned
    ELSE LET r == Head(rest)
             u == r.url   \* u.strip().rstrip(".,);]")
         IN  IF ~r.valid THEN ExtractLoop(Tail(rest), cleaned, cap)
             ELSE LET c2 == IF u \in SeqRange(cleaned) THEN cleaned
                            ELSE Append(cleaned, u)
                  IN  IF Len(c2) >= cap THEN c2
                      ELSE ExtractLoop(Tail(rest), c2, cap)

extract_urls(text, cap, seed) ==
    ExtractLoop(SetIter(Regex1(text) \cup Regex2(text), seed), <<>>, cap)

\* --------------------------------------------------------------- check_url
NoResp == [err |-> TRUE, code |-> 0]
Resp(c) == [err |-> FALSE, code |-> c]
StatusCodes == {199, 200, 299, 300, 301, 399, 400, 403, 404, 405, 499, 500, 503}
Resps == {NoResp} \cup {Resp(c) : c \in StatusCodes}
ProbeOutcomes == [head : Resps, get : Resps]

\* Escalates forgetting the statuses 403 and 405
EscalatesServerOnly(code) == code >= 500

\* line 211: the HEAD status that sends check_url on to the GET
Escalates(code) == code \in {403, 405} \/ code >= 500

check_url(o) ==
    IF o.head.err THEN [ok |-> FALSE, code |-> 0, redirect |-> FALSE, error |-> TRUE]
    ELSE IF Escalates(o.head.code) /\ o.get.err
         THEN [ok |-> FALSE, code |-> 0, redirect |-> FALSE, error |-> TRUE]
    ELSE LET code == IF Escalates(o.head.code) THEN o.get.code ELSE o.head.code
         IN  IF 200 <= code /\ code < 300
             THEN [ok |-> TRUE, code |-> code, redirect |-> FALSE, error |-> FALSE]
             ELSE IF 300 <= code /\ code < 400
             THEN [ok |-> TRUE, code |-> code, redirect |-> TRUE, error |-> FALSE]
             ELSE [ok |-> FALSE, code |-> code, redirect |-> FALSE, error |-> FALSE]

\* what the web answers to the probes of one verify pass: URLs 1..k respond
\* (directly, or with a redirect after the HEAD was refused), the others fail
\* (not found, or no response at all)
Web(k) ==
    [u \in URLs |->
        IF u <= k
        THEN IF u % 2 = 0 THEN [head |-> Resp(200), get |-> NoResp]
             ELSE [head |-> Resp(405), get |-> Resp(301)]
        ELSE IF u % 2 = 0 THEN [head |-> Resp(404), get |-> NoResp]
             ELSE [head |-> NoResp, get |-> NoResp]]

Webs == {Web(k) : k \in 0..NUrl}

\* ----------------------------------------------------- build_metadata_json
\* one element of the parsed JSON array: isdict (a JSON object or not), the
\* value of its "url" key (NoUrl when absent), whether that value is hashable
\* (a string or number, not a list), whether "title" and "why_aligns" are
\* strings, and the title itself
Item(d, u, h, s, t) ==
    [isdict |-> d, url |-> u, hashable |-> h, title_str |-> s, title |-> t]

\* the text of a response: its code-fence wrapping and what json.loads makes
\* of the body ("garbage": not JSON; "list": an array; "object": a JSON
\* object; "scalar": a number)
Content(f, k, its) == [fence |-> f, kind |-> k, items |-> its]

\* content.strip().removeprefix("```json").removesuffix("```").strip(): only
\* the "```json" opening fence is removed; any other opening fence stays and
\* makes the text unparseable
StripFence(content) ==
    IF content.fence \in {"none", "json"} THEN content
    ELSE Content("none", "garbage", <<>>)

\* FilterRows without the membership test
RECURSIVE FilterRowsUnchecked(_, _)
FilterRowsUnchecked(items, allowed) ==
    IF items = <<>> THEN <<>>
    ELSE IF Head(items).isdict
         THEN <<Head(items)>> \o FilterRowsUnchecked(Tail(items), allowed)
         ELSE FilterRowsUnchecked(Tail(items), allowed)

RECURSIVE FilterRows(_, _)
FilterRows(items, allowed) ==
    IF items = <<>> THEN <<>>
    ELSE LET row == Head(items)
         IN  IF row.isdict /\ row.url \in allowed
             THEN <<row>> \o FilterRows(Tail(items), allowed)
             ELSE FilterRows(Tail(items), allowed)

\* order.get(u, 1e9), order = {u: i for i, u in enumerate(verified_urls)}
OrderOf(verified_urls, u) ==
    IF u \in SeqRange(verified_urls)
    THEN CHOOSE i \in DOMAIN verified_urls :
            verified_urls[i] = u /\ \A j \in DOMAIN verified_urls : verified_urls[j] = u => j <= i
    ELSE ORDER_DEFAULT

\* list.sort(key=...): stable insertion of each row after the rows whose key
\* is not greater
RECURSIVE InsertRow(_, _, _)
InsertRow(sorted, row, verified_urls) ==
    IF sorted = <<>> THEN <<row>>
    ELSE IF OrderOf(verified_urls, row.url) < OrderOf(verified_urls, Head(sorted).url)
         THEN <<row>> \o sorted
         ELSE <<Head(sorted)>> \o InsertRow(Tail(sorted), row, verified_urls)

\* SortRows without the sort
SortRowsNone(rows, acc, verified_urls) == acc \o rows

RECURSIVE SortRows(_, _, _)
SortRows(rows, acc, verified_urls) ==
    IF rows = <<>> THEN acc
    ELSE SortRows(Tail(rows), InsertRow(acc, Head(rows), verified_urls), verified_urls)

\* the try block: the filter raises TypeError on a scalar and on an
\* unhashable "url" of a dict item met before the end of the array
FilterRaises(items) ==
    \E i \in DOMAIN items : items[i].isdict /\ ~items[i].hashable

\* MetadataCalls without the early return on an empty list
MetadataCallsAlways(verified_urls) == TRUE

\* whether build_metadata_json reaches its call_model
MetadataCalls(verified_urls) == verified_urls # <<>>

\* build_metadata_json, given the text the service answered with
build_metadata_json(verified_urls, content) ==
    LET c == StripFence(content)
    IN  IF verified_urls = <<>> THEN <<>>
        ELSE IF c.kind # "list" THEN <<>>
        ELSE IF FilterRaises(c.items) THEN <<>>
        ELSE SortRows(FilterRows(c.items, SeqRange(verified_urls)), <<>>, verified_urls)

\* ---------------------------------------------------- render_resource_table
RenderRaises(rows) == \E i \in DOMAIN rows : ~rows[i].title_str

\* render_resource_table without the placeholder for an empty list
render_resource_table_nocheck(rows) ==
    [placeholder |-> FALSE, lines |-> [i \in DOMAIN rows |-> rows[i].url]]

render_resource_table(rows) ==
    IF rows = <<>> THEN [placeholder |-> TRUE, lines |-> <<>>]
    ELSE [placeholder |-> FALSE, lines |-> [i \in DOMAIN rows |-> rows[i].url]]

NoTable == [placeholder |-> FALSE, lines |-> <<>>]

RECURSIVE Dedup(_)
\* list(dict.fromkeys(xs))
Dedup(xs) ==
    IF xs = <<>> THEN <<>>
    ELSE LET d == Dedup(SubSeq(xs, 1, Len(xs) - 1))
         IN  IF xs[Len(xs)] \in SeqRange(d) THEN d ELSE Append(d, xs[Len(xs)])

RECURSIVE ReverseSeq(_)
ReverseSeq(s) == IF s = <<>> THEN <<>> ELSE Append(ReverseSeq(Tail(s)), Head(s))

\* ------------------------------------------------------------ the run state
VARIABLES
    pc,                  \* position in the run handler
    has_key,             \* get_client finds an API key
    seed,                \* the process's hash seed (set iteration order)
    draft,               \* text of the initial draft
    retry_chunk,         \* text of the latest repair retry
    content_for_context, \* accumulated text
    attempt,             \* retry counter
    good,                \* verified URLs so far
    good_unique,         \* list handed to the metadata resolver
    metadata_rows,       \* what build_metadata_json returned
    content,             \* the service's answer to the metadata request
    section_e_table,     \* what render_resource_table returned
    final_output,        \* "## Final Output" and the sections were shown
    warning,             \* the "Only N verified links" warning was shown
    calls,               \* call_model calls issued, by purpose
    probes,              \* check_url calls of the verify passes, in order
    passes,              \* per verify pass: the URLs probed, how many were new and alive
    failed,              \* the step whose exception ended the run
    expected,            \* EXPECTED_PASSCODE (NoPasscode when the secret is unset)
    authed,              \* st.session_state.authed
    run_stamps,          \* st.session_state.run_stamps
    now,                 \* time.time()
    admitted,            \* times at which runs passed the limiter, over the session
    resets,              \* "Reset app" clicks so far
    ui,                  \* the interaction that started the latest script run
    fn_in,               \* argument of a function applied on its own
    fn_out               \* its result

session == <<expected, authed, run_stamps, now, admitted, resets, ui>>

harness == <<fn_in, fn_out>>

vars == <<pc, has_key, seed, draft, retry_chunk, content_for_context, attempt,
          good, good_unique, metadata_rows, content, section_e_table,
          final_output, warning, calls, probes, passes, failed, session, harness>>

NoContent == Content("unset", "garbage", <<>>)

NoCalls == [draft |-> 0, retry |-> 0, metadata |-> 0, clean |-> 0]

Bump(c, what) == [c EXCEPT ![what] = @ + 1]

\* a script run that has reached where shows a page without results
RunFresh(where) ==
    /\ pc = where
    /\ draft = <<>> /\ retry_chunk = <<>> /\ content_for_context = <<>>
    /\ attempt = 0 /\ good = <<>> /\ good_unique = <<>>
    /\ metadata_rows = <<>> /\ content = NoContent /\ section_e_table = NoTable
    /\ final_output = FALSE /\ warning = FALSE
    /\ calls = NoCalls /\ probes = <<>> /\ passes = <<>> /\ failed = "none"

\* no function is being applied on its own
HarnessIdle == fn_in = <<>> /\ fn_out = <<>>

\* lines 287-288: the guards passed and the run was recorded
RunStart == RunFresh("draft")

\* the script is not inside the run handler
RunIdle == RunFresh("idle")

\* st.secrets.get("APP_PASSCODE", None) when the secret is not set
NoPasscode == 0
Passcodes == {1, 2}

\* a text area's content: its length, and whether .strip() leaves nothing
Typed(n, b) == [len |-> n, blank |-> b]
Mlos == {Typed(0, TRUE), Typed(MAX_CHARS, FALSE), Typed(MAX_CHARS + 1, FALSE)}
ConstraintLens == {0, MAX_CHARS + 1}

Clicked(b, code, m, c) == [button |-> b, code |-> code, mlo |-> m, constraints |-> c]
NoUi == Clicked("none", NoPasscode, Typed(0, TRUE), 0)

\* the session of a run that passed the gate and the limiter at time 0
SessionOfOneRun ==
    /\ expected = 1 /\ authed = TRUE
    /\ now = 0 /\ run_stamps = <<0>> /\ admitted = <<0>> /\ resets = 0
    /\ ui = Clicked("run", NoPasscode, Typed(MAX_CHARS, FALSE), 0)

Init ==
    /\ RunStart
    /\ SessionOfOneRun
    /\ HarnessIdle
    /\ has_key \in BOOLEAN
    /\ seed \in 1..NSeeds

\* st.stop() in get_client, or an exception no handler catches: the script
\* run ends there
Halt(where) ==
    /\ pc' = "halted"
    /\ failed' = where

\* InitialDraft swallowing the service error and going on with no draft
InitialDraftSwallow ==
    /\ pc = "draft"
    /\ \/ /\ ~has_key
          /\ Halt("no_key")
          /\ UNCHANGED <<draft, content_for_context, calls>>
       \/ /\ has_key
          /\ calls' = Bump(calls, "draft")
          /\ \/ /\ pc' = "verify"
                /\ failed' = "draft"
                /\ UNCHANGED <<draft, content_for_context>>
             \/ \E text \in GenTexts :
                   /\ draft' = text
                   /\ content_for_context' = text
                   /\ pc' = "verify"
                   /\ UNCHANGED failed
    /\ UNCHANGED <<session, harness, has_key, seed, retry_chunk, attempt, good, good_unique,
                   metadata_rows, content, section_e_table, final_output, warning, probes, passes>>

\* lines 289-296: the initial draft, the service answering with one of texts
InitialDraftWith(texts) ==
    /\ pc = "draft"
    /\ \/ /\ ~has_key
          /\ Halt("no_key")
          /\ UNCHANGED <<draft, content_for_context, calls>>
       \/ /\ has_key
          /\ calls' = Bump(calls, "draft")
          /\ \/ /\ Halt("draft")
                /\ UNCHANGED <<draft, content_for_context>>
             \/ \E text \in texts :
                   /\ draft' = text
                   /\ content_for_context' = text
                   /\ pc' = "verify"
                   /\ UNCHANGED failed
    /\ UNCHANGED <<session, harness, has_key, seed, retry_chunk, attempt, good, good_unique,
                   metadata_rows, content, section_e_table, final_output, warning, probes, passes>>

\* lines 289-296: the initial draft
InitialDraft == InitialDraftWith(GenTexts)

\* results = [(u, *check_url(u)) for u in urls], the web answering web[u]
CheckAll(urls, web) == [i \in DOMAIN urls |-> [u |-> urls[i], ok |-> check_url(web[urls[i]]).ok]]

\* line 305: good = [u for (u, ok, note) in results if ok]
RECURSIVE InitialGood(_)
InitialGood(results) ==
    IF results = <<>> THEN <<>>
    ELSE IF Head(results).ok THEN <<Head(results).u>> \o InitialGood(Tail(results))
         ELSE InitialGood(Tail(results))

\* Merge rebuilding the list from the latest pass alone
MergeReplace(g, results_new) == InitialGood(results_new)

\* Merge without the test "u not in good"
MergeNoDedup(g, results_new) == g \o InitialGood(results_new)

\* lines 326-328: for (u, ok, _) in results_new: if ok and u not in good
RECURSIVE Merge(_, _)
Merge(g, results_new) ==
    IF results_new = <<>> THEN g
    ELSE LET r == Head(results_new)
         IN  IF r.ok /\ r.u \notin SeqRange(g)
             THEN Merge(Append(g, r.u), Tail(results_new))
             ELSE Merge(g, Tail(results_new))

\* what one verify pass did: the URLs it probed, in order, and the number of
\* URLs check_url found alive that were not among the verified URLs g
Pass(results, g) ==
    [urls |-> [i \in DOMAIN results |-> results[i].u],
     fresh |-> Cardinality({results[i].u : i \in {j \in DOMAIN results : results[j].ok}}
                              \ SeqRange(g))]

\* lines 303-305: verify the draft's URLs, the web being one of webs
VerifyDraftWith(webs) ==
    /\ pc = "verify"
    /\ LET urls == extract_urls(draft, DRAFT_CAP, seed)
       IN  \E web \in webs :
              /\ good' = InitialGood(CheckAll(urls, web))
              /\ probes' = probes \o urls
              /\ passes' = Append(passes, Pass(CheckAll(urls, web), <<>>))
    /\ pc' = "loop"
    /\ UNCHANGED <<session, harness, has_key, seed, draft, retry_chunk, content_for_context, attempt,
                   good_unique, metadata_rows, content, section_e_table, final_output,
                   warning, calls, failed>>

\* lines 303-305: verify the draft's URLs
VerifyDraft == VerifyDraftWith(Webs)

\* RetryWanted retrying whatever has been verified
RetryWantedAlways(g, a) == a < MAX_RETRIES

\* RetryWanted allowing one retry too many
RetryWantedOffByOne(g, a) == Len(g) < MIN_GOOD /\ a <= MAX_RETRIES

\* RetryWanted retrying while either condition holds
RetryWantedEither(g, a) == Len(g) < MIN_GOOD \/ a < MAX_RETRIES

\* line 312: the loop guard
RetryWanted(g, a) == Len(g) < MIN_GOOD /\ a < MAX_RETRIES

\* lines 312-322: one more repair retry is requested, the service answering
\* with one of texts
RetryCallWith(texts) ==
    /\ pc = "loop"
    /\ RetryWanted(good, attempt)
    /\ attempt' = attempt + 1
    /\ calls' = Bump(calls, "retry")
    /\ \/ /\ Halt("retry")
          /\ UNCHANGED <<retry_chunk, content_for_context>>
       \/ \E text \in texts :
             /\ retry_chunk' = text
             /\ content_for_context' = content_for_context \o <<Word>> \o text
             /\ pc' = "retry_verify"
             /\ UNCHANGED failed
    /\ UNCHANGED <<session, harness, has_key, seed, draft, good, good_unique, metadata_rows,
                   content, section_e_table, final_output, warning, probes, passes>>

\* lines 312-322: one more repair retry is requested
RetryCall == RetryCallWith(GenTexts)

\* VerifyRetryWith extracting from the accumulated text
VerifyRetryWhole(webs) ==
    /\ pc = "retry_verify"
    /\ LET urls_new == extract_urls(content_for_context, RETRY_CAP, seed)
       IN  \E web \in webs :
              /\ good' = Merge(good, CheckAll(urls_new, web))
              /\ probes' = probes \o urls_new
              /\ passes' = Append(passes, Pass(CheckAll(urls_new, web), good))
    /\ pc' = "loop"
    /\ UNCHANGED <<session, harness, has_key, seed, draft, retry_chunk,
                   content_for_context, attempt, good_unique, metadata_rows,
                   content, section_e_table, final_output, warning, calls, failed>>

\* lines 324-328: verify the retry chunk's URLs and merge, the web being one
\* of webs
VerifyRetryWith(webs) ==
    /\ pc = "retry_verify"
    /\ LET urls_new == extract_urls(retry_chunk, RETRY_CAP, seed)
       IN  \E web \in webs :
              /\ good' = Merge(good, CheckAll(urls_new, web))
              /\ probes' = probes \o urls_new
              /\ passes' = Append(passes, Pass(CheckAll(urls_new, web), good))
    /\ pc' = "loop"
    /\ UNCHANGED <<session, harness, has_key, seed, draft, retry_chunk, content_for_context, attempt,
                   good_unique, metadata_rows, content, section_e_table, final_output,
                   warning, calls, failed>>

\* lines 324-328: verify the retry chunk's URLs and merge
VerifyRetry == VerifyRetryWith(Webs)

\* lines 312, 330-350: the loop is left; the diagnostics report, when shown,
\* re-checks every URL of the accumulated text and changes nothing
LeaveLoop ==
    /\ pc = "loop"
    /\ ~RetryWanted(good, attempt)
    /\ pc' = "resolve"
    /\ UNCHANGED <<session, harness, has_key, seed, draft, retry_chunk, content_for_context, attempt,
                   good, good_unique, metadata_rows, content, section_e_table, final_output,
                   warning, calls, probes, passes, failed>>

\* ------------------------------------------------ what the service answers
\* the records a faithful service returns for verified_urls, one per URL
Echo(verified_urls) ==
    [i \in DOMAIN verified_urls |-> Item(TRUE, verified_urls[i], TRUE, TRUE, i)]

\* metadata answers considered within a run: not JSON; a well-formed array
\* behind an untagged code fence; a fenced array in reverse order with a
\* non-record and a fabricated URL; a JSON object; a record whose title is
\* not a string
RunContents(verified_urls) ==
    { Content("none", "garbage", <<>>),
      Content("bare", "list", Echo(verified_urls)),
      Content("json", "list",
              <<Item(FALSE, NoUrl, TRUE, TRUE, 0)>> \o ReverseSeq(Echo(verified_urls))
                  \o <<Item(TRUE, ForeignUrl, TRUE, TRUE, 0)>>),
      Content("none", "object", <<>>),
      Content("none", "list",
              IF verified_urls = <<>> THEN <<>>
              ELSE <<Item(TRUE, verified_urls[1], TRUE, FALSE, 1)>>) }

\* lines 353-355: good_unique, build_metadata_json, render_resource_table,
\* the service answering with one of contents
ResolveWith(contents) ==
    /\ pc = "resolve"
    /\ good_unique' = Dedup(good)
    /\ IF ~MetadataCalls(good_unique')
       THEN /\ metadata_rows' = build_metadata_json(good_unique', content)
            /\ section_e_table' = render_resource_table(metadata_rows')
            /\ pc' = "clean_adf"
            /\ UNCHANGED <<content, calls, failed>>
       ELSE /\ calls' = Bump(calls, "metadata")
            /\ \/ /\ Halt("metadata")
                  /\ UNCHANGED <<metadata_rows, content, section_e_table>>
               \/ \E answer \in contents :
                     /\ content' = answer
                     /\ metadata_rows' = build_metadata_json(good_unique', answer)
                     /\ IF RenderRaises(metadata_rows')
                        THEN /\ Halt("render")
                             /\ UNCHANGED section_e_table
                        ELSE /\ section_e_table' = render_resource_table(metadata_rows')
                             /\ pc' = "clean_adf"
                             /\ UNCHANGED failed
    /\ UNCHANGED <<session, harness, has_key, seed, draft, retry_chunk, content_for_context, attempt,
                   good, final_output, warning, probes, passes>>

Resolve == ResolveWith(RunContents(Dedup(good)))

\* lines 358-366 and 368-376: one clean-narrative request
CleanCall(here, next) ==
    /\ pc = here
    /\ calls' = Bump(calls, "clean")
    /\ \/ Halt(here)
       \/ /\ pc' = next
          /\ UNCHANGED failed
    /\ UNCHANGED <<session, harness, has_key, seed, draft, retry_chunk, content_for_context, attempt,
                   good, good_unique, metadata_rows, content, section_e_table, final_output,
                   warning, probes, passes>>

CleanADF == CleanCall("clean_adf", "clean_g")

CleanG == CleanCall("clean_g", "present")

\* lines 379-391: the final output and the warning
Present ==
    /\ pc = "present"
    /\ final_output' = TRUE
    /\ warning' = (Len(good_unique) < MIN_GOOD)
    /\ pc' = "done"
    /\ UNCHANGED <<session, harness, has_key, seed, draft, retry_chunk, content_for_context, attempt,
                   good, good_unique, metadata_rows, content, section_e_table, calls,
                   probes, passes,
                   failed>>

Next ==
    \/ InitialDraft
    \/ VerifyDraft
    \/ RetryCall
    \/ VerifyRetry
    \/ LeaveLoop
    \/ Resolve
    \/ CleanADF
    \/ CleanG
    \/ Present

Spec == Init /\ [][Next]_vars

\* ------------------------------------------- the metadata resolver alone
\* sequences over S of length at most n
RECURSIVE SeqsUpTo(_, _)
SeqsUpTo(S, n) ==
    IF n = 0 THEN {<<>>}
    ELSE LET shorter == SeqsUpTo(S, n - 1)
         IN  shorter \cup {Append(q, x) : q \in {r \in shorter : Len(r) = n - 1}, x \in S}

NoDuplicates(q) == \A i, j \in DOMAIN q : q[i] = q[j] => i = j

\* verified-URL lists handed to the resolver
VerifiedLists == {q \in SeqsUpTo(1..MaxVerified, MaxVerified) : NoDuplicates(q)}

\* elements a response array may carry: a non-record; a record for each URL;
\* a second, different record for URL 1; records with a fabricated URL, with
\* no URL, with a list as URL, with a title that is not a string
MetaItems ==
    {Item(FALSE, NoUrl, TRUE, TRUE, 0)}
        \cup {Item(TRUE, u, TRUE, TRUE, 1) : u \in 1..MaxVerified}
        \cup { Item(TRUE, 1, TRUE, TRUE, 2),
               Item(TRUE, ForeignUrl, TRUE, TRUE, 1),
               Item(TRUE, NoUrl, TRUE, TRUE, 1),
               Item(TRUE, NoUrl, FALSE, TRUE, 1),
               Item(TRUE, 1, TRUE, FALSE, 1) }

AllContents ==
    {Content(f, "list", its) : f \in {"none", "json", "bare"},
                               its \in SeqsUpTo(MetaItems, MaxItems)}
        \cup {Content("none", k, <<>>) : k \in {"garbage", "object", "scalar"}}

\* the run stands before line 353 with some verified list
InitMeta ==
    /\ pc = "resolve"
    /\ has_key = TRUE
    /\ seed = 1
    /\ good \in VerifiedLists
    /\ draft = BareRun(1, MaxVerified) /\ content_for_context = draft
    /\ retry_chunk = <<>> /\ attempt = 0 /\ good_unique = <<>>
    /\ metadata_rows = <<>> /\ content = NoContent /\ section_e_table = NoTable
    /\ final_output = FALSE /\ warning = FALSE
    /\ calls = Bump(NoCalls, "draft")
    /\ probes = extract_urls(draft, DRAFT_CAP, seed)
    /\ passes = <<[urls |-> probes, fresh |-> Len(good)]>>
    /\ failed = "none"
    /\ SessionOfOneRun
    /\ HarnessIdle

ResolveAny == ResolveWith(AllContents)

NextMeta == ResolveAny

SpecMeta == InitMeta /\ [][NextMeta]_vars

\* ------------------------------------------------------------- properties
\* the loop was left through its guard (line 312 found it false)
LoopLeft ==
    \/ pc \in {"resolve", "clean_adf", "clean_g", "present", "done"}
    \/ failed \in {"metadata", "render", "clean_adf", "clean_g"}

\* the verified list was handed to the resolver (line 354 was reached)
HandedOff ==
    \/ pc \in {"clean_adf", "clean_g", "present", "done"}
    \/ failed \in {"metadata", "render", "clean_adf", "clean_g"}

\* C1 Retry bound: no run issues more than 2 retry generation calls; a run
\* that leaves the loop with no verified URL has issued exactly 2; and once 2
\* have been issued no further retry can start.
RetryBound ==
    /\ calls.retry <= 2
    /\ (LoopLeft /\ good = <<>>) => calls.retry = 2
    /\ calls.retry = 2 => ~ENABLED RetryCall

\* C1 witness: every pass found nothing alive, 2 retries were issued and the
\* loop was left
RetryBoundWitness ==
    /\ pc = "resolve" /\ good = <<>> /\ calls.retry = 2
    /\ draft = FullText /\ retry_chunk = FullText

\* one step obeys the decision rule of line 312
DecisionStep ==
    /\ calls'.retry # calls.retry =>
          /\ pc = "loop" /\ Len(good) < 6 /\ attempt < 2
          /\ calls'.retry = calls.retry + 1 /\ attempt' = attempt + 1
    /\ pc = "loop" =>
          IF Len(good) < 6 /\ attempt < 2
          THEN calls'.retry = calls.retry + 1 /\ pc' \in {"retry_verify", "halted"}
          ELSE pc' = "resolve" /\ calls' = calls /\ good' = good

\* C2 Decision rule: a retry call is issued exactly from the decision point
\* when fewer than 6 URLs are verified and fewer than 2 retries were made;
\* from the decision point the run otherwise moves to Resolving with no call.
DecisionRule == [][DecisionStep]_vars

\* C2 witness (Scenario A): 8 URLs probed, 6 alive, the loop left with no retry
ScenarioAWitness ==
    /\ pc = "resolve" /\ calls.retry = 0 /\ attempt = 0
    /\ Len(probes) = 8 /\ Len(good) = 6

\* C3 A failed retry call never ends the run.
RetryFailureTolerated == ~(pc = "halted" /\ failed = "retry")

\* C4 A run ends without output only for a missing credential or a failed
\* initial draft call.
OnlyTwoFatalCases == (pc = "halted") => failed \in {"no_key", "draft"}

\* C5 A failed initial draft call ends the run with nothing done: no URL
\* probed, no other generation call, no list, no table, no output, no step left.
DraftFailureFatal ==
    failed = "draft" =>
        /\ pc = "halted"
        /\ probes = <<>> /\ good = <<>> /\ good_unique = <<>>
        /\ calls = [draft |-> 1, retry |-> 0, metadata |-> 0, clean |-> 0]
        /\ metadata_rows = <<>> /\ section_e_table = NoTable
        /\ ~final_output /\ ~warning
        /\ ~ENABLED Next

\* C5 witness: the initial draft call failed
DraftFailureWitness == pc = "halted" /\ failed = "draft" /\ calls.draft = 1

IsPrefix(p, q) == Len(p) <= Len(q) /\ \A i \in DOMAIN p : q[i] = p[i]

\* C6 Monotonic VerifiedSet: every step keeps the verified list as a prefix of
\* the new one, and the list handed to the resolver holds every verified URL.
MonotonicVerifiedSet ==
    /\ [][IsPrefix(good, good')]_vars
    /\ [](HandedOff => /\ Len(good_unique) >= Len(good)
                       /\ SeqRange(good) \subseteq SeqRange(good_unique))

\* C6 witness: the draft gave at most HeadLen URLs, the retries added one, and
\* the list was handed over
MonotonicWitness ==
    /\ pc = "done" /\ draft = HeadText /\ attempt = 2
    /\ Len(good) = HeadLen + 1 /\ good_unique = good

\* C7 Metadata URL containment: every returned record's url is in the
\* verified list handed to the resolver.
MetadataUrlContainment ==
    \A i \in DOMAIN metadata_rows :
        \E j \in DOMAIN good_unique : metadata_rows[i].url = good_unique[j]

\* C7 witness: the answer carried a fabricated URL and a non-record, and
\* records were still returned
ContainmentWitness ==
    /\ pc = "clean_adf" /\ metadata_rows # <<>>
    /\ \E i, j \in DOMAIN content.items :
          content.items[i].url = ForeignUrl /\ ~content.items[j].isdict

\* C8 Metadata order: the returned records follow the order of the verified
\* list, and each of them is a record of the answer (nothing is padded).
MetadataOrder ==
    /\ \A i, j \in DOMAIN metadata_rows : \A a, b \in DOMAIN good_unique :
          (i < j /\ good_unique[a] = metadata_rows[i].url
                 /\ good_unique[b] = metadata_rows[j].url) => a <= b
    /\ \A i \in DOMAIN metadata_rows :
          \E k \in DOMAIN content.items : content.items[k] = metadata_rows[i]
    /\ Len(metadata_rows) <= Len(content.items)

\* C8 witness: the answer listed records against the verified order and left
\* one verified URL out
OrderWitness ==
    /\ pc = "clean_adf" /\ Len(good_unique) = 3 /\ Len(metadata_rows) = 2
    /\ content.items[1].url = good_unique[3]
    /\ content.items[2].url = good_unique[1]
    /\ metadata_rows[1].url = good_unique[1]

\* an answer json.loads rejects: not JSON, or JSON behind an untagged fence
Unparseable(c) == c # NoContent /\ (c.kind = "garbage" \/ c.fence = "bare")

\* C9 Malformed metadata response: an answer that does not parse gives no
\* record and the placeholder table, and does not end the run.
MalformedMetadataHandled ==
    Unparseable(content) =>
        /\ metadata_rows = <<>>
        /\ section_e_table = [placeholder |-> TRUE, lines |-> <<>>]
        /\ failed \notin {"metadata", "render"}
        /\ pc \in {"clean_adf", "clean_g", "present", "done", "halted"}

\* C9 witness: verified URLs existed, the answer was not JSON, and the run
\* showed its output with the placeholder
MalformedWitness ==
    /\ pc = "done" /\ final_output /\ good_unique # <<>>
    /\ content.kind = "garbage" /\ calls.metadata = 1
    /\ section_e_table.placeholder

\* the resolve step on an empty verified list
EmptyResolveStep ==
    (pc = "resolve" /\ good = <<>>) =>
        /\ calls' = calls
        /\ good_unique' = <<>> /\ metadata_rows' = <<>>
        /\ section_e_table' = [placeholder |-> TRUE, lines |-> <<>>]
        /\ pc' = "clean_adf"

\* C10 Empty VerifiedSet: resolving an empty list makes no generation call,
\* returns no record and renders the placeholder.
EmptyVerifiedSet == [][EmptyResolveStep]_vars

\* C10 witness: URLs were probed, none was alive, and the run ended with the
\* placeholder and no metadata call
EmptyVerifiedWitness ==
    /\ pc = "done" /\ good_unique = <<>> /\ probes # <<>>
    /\ calls.metadata = 0 /\ calls.retry = 2
    /\ section_e_table.placeholder /\ warning

\* ------------------------------------------------ runs over long texts
\* a text with one URL more than the larger cap admits
LongUrls == 1..(DRAFT_CAP + 1)
LongText == BareRun(1, DRAFT_CAP + 1)
LongTexts == {EmptyText, LongText}

\* URLs 1..k respond, the others are not found; few enough respond for the
\* retries to go on
LongWeb(k) ==
    [u \in LongUrls |->
        IF u <= k THEN [head |-> Resp(200), get |-> NoResp]
        ELSE [head |-> Resp(404), get |-> NoResp]]

LongWebs == {LongWeb(0), LongWeb(MIN_GOOD - 1), LongWeb(MIN_GOOD)}

NextLong ==
    \/ InitialDraftWith(LongTexts)
    \/ VerifyDraftWith(LongWebs)
    \/ RetryCallWith(LongTexts)
    \/ VerifyRetryWith(LongWebs)
    \/ LeaveLoop
    \/ Resolve
    \/ CleanADF
    \/ CleanG
    \/ Present

SpecLong == Init /\ [][NextLong]_vars

\* ------------------------------------------------------------- the session
\* moments at which the user acts
Times == {0, WINDOW_SECONDS, WINDOW_SECONDS + 1}

\* pc after a script run that did not enter the run handler: the st.stop()
\* it ended at (lines 33, 51, 101, 281, 287), or "idle" at the end of the
\* script; "done" and "halted" end a run
Resting == {"idle", "stop_secret", "stop_gate", "stop_long", "stop_blank",
            "stop_limit", "done", "halted"}

\* the script run reached line 276, so the page shows "Find resources"
Rendered == {"idle", "stop_blank", "stop_limit", "done", "halted"}

\* the gate letting everybody through
GateOpen(a) == FALSE

\* lines 50-51: if not st.session_state.authed: st.stop()
Gate(a) == ~a

\* the length guard looking at the objective only
TooLongMloOnly(m, c) == m.len > MAX_CHARS

\* line 98
TooLong(m, c) == m.len > MAX_CHARS \/ c > MAX_CHARS

\* lines 62-66: stale stamps are dropped, then the count is compared
RECURSIVE Popleft(_, _)
Popleft(stamps, t) ==
    IF stamps # <<>> /\ t - Head(stamps) > WINDOW_SECONDS
    THEN Popleft(Tail(stamps), t) ELSE stamps

allow_session_run(stamps, t) ==
    [stamps |-> Popleft(stamps, t),
     ok |-> Len(Popleft(stamps, t)) < MAX_RUNS_PER_WINDOW]

\* lines 68-69
record_session_run(stamps, t) == Append(stamps, t)

\* a script run starts from a page without results
RunReset(where) ==
    /\ pc' = where
    /\ draft' = <<>> /\ retry_chunk' = <<>> /\ content_for_context' = <<>>
    /\ attempt' = 0 /\ good' = <<>> /\ good_unique' = <<>>
    /\ metadata_rows' = <<>> /\ content' = NoContent /\ section_e_table' = NoTable
    /\ final_output' = FALSE /\ warning' = FALSE
    /\ calls' = NoCalls /\ probes' = <<>> /\ passes' = <<>> /\ failed' = "none"

\* one run of the script from the top (lines 26-101, 276-287) with the
\* session holding authed = a and run_stamps = stamps, the button
\* "Find resources" pressed or not, and the text areas holding m and c
Script(a, stamps, run, m, c) ==
    LET limiter == allow_session_run(stamps, now)
        where == IF expected = NoPasscode THEN "stop_secret"
                 ELSE IF Gate(a) THEN "stop_gate"
                 ELSE IF TooLong(m, c) THEN "stop_long"
                 ELSE IF ~run THEN "idle"
                 ELSE IF m.blank THEN "stop_blank"
                 ELSE IF ~limiter.ok THEN "stop_limit"
                 ELSE "draft"
    IN  /\ RunReset(where)
        /\ authed' = a
        /\ run_stamps' = IF where = "stop_limit" THEN limiter.stamps
                         ELSE IF where = "draft"
                         THEN record_session_run(limiter.stamps, now)
                         ELSE stamps
        /\ admitted' = IF where = "draft" THEN Append(admitted, now) ELSE admitted

InitSession ==
    /\ expected \in {NoPasscode} \cup {1}
    /\ authed = FALSE /\ run_stamps = <<>> /\ now = 0
    /\ admitted = <<>> /\ resets = 0 /\ ui = NoUi
    /\ RunFresh(IF expected = NoPasscode THEN "stop_secret"
                ELSE IF Gate(authed) THEN "stop_gate" ELSE "idle")
    /\ HarnessIdle
    /\ has_key = TRUE /\ seed = 1

\* lines 19-24: "Reset app" clears the session state and reruns the script
ResetApp ==
    /\ pc \in Resting
    /\ resets < MaxResets
    /\ resets' = resets + 1
    /\ ui' = Clicked("reset", NoPasscode, Typed(0, TRUE), 0)
    /\ Script(FALSE, <<>>, FALSE, Typed(0, TRUE), 0)
    /\ UNCHANGED <<expected, now, has_key, seed, harness>>

\* lines 38-48: "Unlock" with the passcode field holding code
Unlock(code) ==
    /\ pc = "stop_gate"
    /\ ui' = Clicked("unlock", code, Typed(0, TRUE), 0)
    /\ Script(IF code = expected THEN TRUE ELSE authed, run_stamps, FALSE,
              Typed(0, TRUE), 0)
    /\ UNCHANGED <<expected, now, resets, has_key, seed, harness>>

\* lines 88-101: the text areas are edited, which reruns the script
EditInputs(m, c) ==
    /\ pc \in Rendered \cup {"stop_long"}
    /\ ui' = Clicked("edit", NoPasscode, m, c)
    /\ Script(authed, run_stamps, FALSE, m, c)
    /\ UNCHANGED <<expected, now, resets, has_key, seed, harness>>

\* lines 276-287: "Find resources" with the text areas holding m and c
FindResources(m, c) ==
    /\ pc \in Rendered
    /\ Len(admitted) < MaxAdmitted
    /\ ui' = Clicked("run", NoPasscode, m, c)
    /\ Script(authed, run_stamps, TRUE, m, c)
    /\ UNCHANGED <<expected, now, resets, has_key, seed, harness>>

\* time passes between two interactions
Tick(t) ==
    /\ pc \in Resting
    /\ t > now
    /\ now' = t
    /\ UNCHANGED <<pc, has_key, seed, draft, retry_chunk, content_for_context,
                   attempt, good, good_unique, metadata_rows, content,
                   section_e_table, final_output, warning, calls, probes, passes,
                   failed, expected, authed, run_stamps, admitted, resets, ui,
                   harness>>

\* what the services answer to the runs of a session
SessionTexts == {HeadText}
SessionWebs == {Web(NUrl)}
SessionContents == {Content("none", "garbage", <<>>)}

NextSession ==
    \/ ResetApp
    \/ \E code \in Passcodes : Unlock(code)
    \/ \E m \in Mlos, c \in ConstraintLens : EditInputs(m, c)
    \/ \E m \in Mlos, c \in ConstraintLens : FindResources(m, c)
    \/ \E t \in Times : Tick(t)
    \/ InitialDraftWith(SessionTexts)
    \/ VerifyDraftWith(SessionWebs)
    \/ RetryCallWith(SessionTexts)
    \/ VerifyRetryWith(SessionWebs)
    \/ LeaveLoop
    \/ ResolveWith(SessionContents)
    \/ CleanADF
    \/ CleanG
    \/ Present

SpecSession == InitSession /\ [][NextSession]_vars

\* ------------------------------------------------- the link checker alone
\* HTTP requests check_url sends: the HEAD, and the GET when the HEAD was
\* answered with a status that escalates
RequestsMade(o) == IF ~o.head.err /\ Escalates(o.head.code) THEN 2 ELSE 1

InitCheck ==
    /\ RunIdle
    /\ SessionOfOneRun
    /\ has_key = TRUE /\ seed = 1
    /\ fn_in \in ProbeOutcomes
    /\ fn_out = <<>>

\* lines 207-220: one call of check_url
ApplyCheck ==
    /\ fn_out = <<>>
    /\ fn_out' = <<[verdict |-> check_url(fn_in), requests |-> RequestsMade(fn_in)]>>
    /\ UNCHANGED <<pc, has_key, seed, draft, retry_chunk, content_for_context,
                   attempt, good, good_unique, metadata_rows, content,
                   section_e_table, final_output, warning, calls, probes, passes,
                   failed, session, fn_in>>

NextCheck == ApplyCheck

SpecCheck == InitCheck /\ [][NextCheck]_vars

\* the status the claim's rule decides on: the HEAD's, or the GET's when the
\* HEAD's is 403, 405 or at least 500
FinalStatus(o) ==
    IF o.head.code = 403 \/ o.head.code = 405 \/ o.head.code >= 500
    THEN o.get ELSE o.head

\* C11 Link Checker verdict: every pair of probe outcomes gets a verdict; the
\* HEAD status decides unless it is 403, 405 or >= 500, and then the GET
\* status does; [200,300) is alive, [300,400) alive with the redirect note,
\* any other status not alive, a transport failure in either phase not alive
\* with the error note; at most two requests are sent.
CheckVerdict ==
    fn_out # <<>> =>
        LET v == fn_out[1].verdict
            f == FinalStatus(fn_in)
        IN  /\ v \in [ok : BOOLEAN, code : Nat, redirect : BOOLEAN, error : BOOLEAN]
            /\ fn_out[1].requests \in 1..2
            /\ IF fn_in.head.err \/ f.err
               THEN ~v.ok /\ v.error /\ ~v.redirect
               ELSE /\ ~v.error /\ v.code = f.code
                    /\ v.ok = (200 <= f.code /\ f.code < 400)
                    /\ v.redirect = (300 <= f.code /\ f.code < 400)

\* C11 witness: a refused HEAD, then a GET whose final status is a redirect
CheckVerdictWitness ==
    /\ fn_out # <<>>
    /\ fn_in = [head |-> Resp(405), get |-> Resp(399)]
    /\ fn_out[1].verdict.ok /\ fn_out[1].verdict.redirect
    /\ fn_out[1].requests = 2

\* ---------------------------------------------------- the extractor alone
TextUrls == 1..ExtractUrls

Tokens ==
    {Word} \cup {Bare(u, p) : u \in TextUrls, p \in {"", "."}}
           \cup {Md(u) : u \in TextUrls} \cup {Malformed(u) : u \in TextUrls}

Texts == UNION {[1..n -> Tokens] : n \in 0..MaxTokens}

\* the caps the run handler passes (lines 303, 324), and a cap that binds
Caps == {1, DRAFT_CAP, RETRY_CAP}

InitExtract ==
    /\ RunIdle
    /\ SessionOfOneRun
    /\ has_key = TRUE
    /\ seed \in 1..NSeeds
    /\ fn_in \in [text : Texts, cap : Caps]
    /\ fn_out = <<>>

\* lines 187-205: one call of extract_urls
ApplyExtract ==
    /\ fn_out = <<>>
    /\ fn_out' = <<extract_urls(fn_in.text, fn_in.cap, seed)>>
    /\ UNCHANGED <<pc, has_key, seed, draft, retry_chunk, content_for_context,
                   attempt, good, good_unique, metadata_rows, content,
                   section_e_table, final_output, warning, calls, probes, passes,
                   failed, session, fn_in>>

NextExtract == ApplyExtract

SpecExtract == InitExtract /\ [][NextExtract]_vars

\* the URLs of a text in the order of their first occurrence, up to cap
RECURSIVE FirstSeen(_, _, _)
FirstSeen(text, acc, cap) ==
    IF text = <<>> \/ Len(acc) >= cap THEN acc
    ELSE LET t == Head(text)
         IN  IF t.kind \in {"bare", "md"} /\ t.url \notin SeqRange(acc)
             THEN FirstSeen(Tail(text), Append(acc, t.url), cap)
             ELSE FirstSeen(Tail(text), acc, cap)

\* C12 Extraction order preservation: extract returns the URLs of the text in
\* the order of their first occurrence, whatever form each was written in.
ExtractionOrder ==
    fn_out # <<>> => fn_out[1] = FirstSeen(fn_in.text, <<>>, fn_in.cap)

\* the objective or the constraints of the click exceed 2000 characters
LongClick == ui.button = "run" /\ (ui.mlo.len > 2000 \/ ui.constraints > 2000)

\* the click with too long an input, seen as a step
LongClickStep ==
    (pc \in Resting /\ LongClick') =>
        /\ pc' = "stop_long"
        /\ calls' = NoCalls /\ probes' = <<>> /\ draft' = <<>>
        /\ run_stamps' = run_stamps /\ admitted' = admitted

\* C13 Input-too-long rejection: a click on "Find resources" with an
\* objective or constraints longer than 2000 characters stops the script
\* before the run handler: no generation call, no probe, no draft, and the
\* rate limiter's stamps are left as they were.
TooLongRejected ==
    /\ [](LongClick => (pc = "stop_long" /\ calls = NoCalls /\ probes = <<>>))
    /\ [][LongClickStep]_vars

\* C13 witness: an authenticated session that has had a run admitted is
\* refused a click whose constraints alone are too long
TooLongWitness ==
    /\ pc = "stop_long" /\ ui.button = "run"
    /\ ui.mlo = Typed(2000, FALSE) /\ ui.constraints = 2001
    /\ authed /\ Len(run_stamps) = 1 /\ admitted = run_stamps

\* C19 Session rate limit: no window of 3600 seconds holds more than 15
\* admitted runs, whatever the user clicked in between.
RollingLimit ==
    \A i \in DOMAIN admitted :
        Cardinality({j \in DOMAIN admitted :
                        admitted[i] <= admitted[j] /\ admitted[j] < admitted[i] + 3600})
            <= 15

\* the step that makes the session authenticated
AuthStep ==
    (~authed /\ authed') =>
        (ui'.button = "unlock" /\ ui'.code = expected /\ expected # NoPasscode)

\* the "Reset app" click, seen as a step
ResetStep ==
    (resets' = resets + 1) =>
        (ui'.button = "reset" /\ ~authed' /\ pc' \in {"stop_gate", "stop_secret"})

\* C20 Passcode gate: the run handler is entered, and a generation call or a
\* probe made, only in an authenticated session; only "Unlock" with the
\* configured passcode authenticates; "Reset app" leaves the session
\* unauthenticated, in front of the gate.
PasscodeGate ==
    /\ []((pc \notin Resting \/ calls # NoCalls \/ probes # <<>>)
             => (authed /\ expected # NoPasscode))
    /\ [][AuthStep]_vars
    /\ [][ResetStep]_vars

\* C20 witness: a wrong passcode was refused, the right one accepted, a run
\* made its calls and probes, and "Reset app" locked the session again
PasscodeGateWitness ==
    /\ resets = 1 /\ ~authed /\ pc = "stop_gate"
    /\ ui.button = "unlock" /\ ui.code # expected
    /\ admitted # <<>>

\* C14 Graceful termination: a run whose draft succeeded and whose every
\* external call returned does not end without output, and a finished run
\* shows the warning exactly when fewer than 6 URLs are verified.
GracefulTermination ==
    /\ ~(pc = "halted" /\ failed = "render")
    /\ (pc = "done" => warning = (Len(good_unique) < 6))

\* the draft held 3 URLs and all of them were found alive
ScenarioB == passes # <<>> /\ Len(passes[1].urls) = 3 /\ passes[1].fresh = 3

\* new live URLs yielded by the passes from k on
RECURSIVE FreshFrom(_, _)
FreshFrom(ps, k) == IF k > Len(ps) THEN 0 ELSE ps[k].fresh + FreshFrom(ps, k + 1)

\* C15 Scenario B as stated: 3 URLs, all alive, give exactly 2 retries and a
\* final VerifiedSet of 3 plus the new live URLs of the retries.
ScenarioBExactlyTwo ==
    (ScenarioB /\ LoopLeft) =>
        (calls.retry = 2 /\ Len(good) = 3 + FreshFrom(passes, 2))

\* C15 amended: with 3 URLs, all alive, the VerifiedSet always holds 3 plus
\* the new live URLs of the retry passes so far; a second retry is issued
\* only after a first pass that left fewer than 6; the loop is left after 1
\* retry when the first reached 6, and after 2 otherwise.
ScenarioBRetries ==
    ScenarioB =>
        /\ Len(good) = 3 + FreshFrom(passes, 2)
        /\ calls.retry <= 2
        /\ calls.retry = 2 => (Len(passes) >= 2 /\ 3 + passes[2].fresh < 6)
        /\ LoopLeft =>
              /\ calls.retry >= 1
              /\ Len(passes) = 1 + calls.retry
              /\ calls.retry = 1 <=> 3 + passes[2].fresh >= 6

\* C15 witness: the first retry brought 5 new live URLs and the run finished
\* after that single retry
ScenarioBWitness ==
    /\ ScenarioB /\ pc = "done" /\ calls.retry = 1
    /\ passes[2].fresh = 5 /\ Len(good) = 8 /\ ~warning

\* a retry pass, seen as a step of the verified list
DedupStep ==
    (pc = "retry_verify") =>
        /\ IsPrefix(good, good')
        /\ Len(good') = Len(good) + passes'[Len(passes')].fresh

\* C16 VerifiedSet deduplication: the verified list never holds a URL twice,
\* and a retry pass appends its new live URLs behind the existing ones.
VerifiedSetDedup ==
    /\ [](NoDuplicates(good) /\ NoDuplicates(good_unique))
    /\ [][DedupStep]_vars

\* C16 witness: a retry chunk re-surfaced a verified URL beside a fresh one,
\* and only the fresh one was appended
DedupWitness ==
    /\ pc = "done" /\ draft = HeadText /\ Len(good) = HeadLen + 1
    /\ good[HeadLen + 1] = HeadLen + 1
    /\ \E i \in 2..Len(passes) :
          /\ passes[i].fresh = 1
          /\ HeadLen \in SeqRange(passes[i].urls)
          /\ HeadLen \in SeqRange(SubSeq(good, 1, HeadLen))

\* C17 Incremental verification as stated: no URL is probed twice in the
\* decision path of a run.
NoReprobe == NoDuplicates(probes)

\* the URLs a text mentions
Mentioned(text) ==
    {text[i].url : i \in {j \in DOMAIN text : text[j].kind \in {"bare", "md"}}}

\* a retry pass, seen as a step of the probes
RetryPassStep ==
    (pc = "retry_verify") =>
        LET new == passes'[Len(passes')].urls
        IN  /\ probes' = probes \o new
            /\ NoDuplicates(new)
            /\ SeqRange(new) \subseteq Mentioned(retry_chunk)
            /\ Len(new) < 40 => SeqRange(new) = Mentioned(retry_chunk)

\* C17 amended: a retry pass probes the URLs of the new text segment only,
\* each once; a URL probed in an earlier pass is probed again exactly when
\* the new segment mentions it again.
IncrementalVerification == [][RetryPassStep]_vars

\* C17 witness: the retry chunk mentioned URLs of the draft again, and they
\* were probed a second time
ReprobeWitness ==
    /\ pc = "done" /\ draft = HeadText /\ retry_chunk = MixedText
    /\ ~NoDuplicates(probes)
    /\ Len(passes) = 3 /\ Len(passes[3].urls) = 3

\* C18 Bounded external calls: a run makes at most 1 draft call, 2 retry
\* calls, 1 metadata call and 2 clean-narrative calls, 6 in all, and its
\* verify passes probe at most 60 URLs of the draft and 40 of each retry.
BoundedCalls ==
    /\ calls.draft <= 1 /\ calls.retry <= 2
    /\ calls.metadata <= 1 /\ calls.clean <= 2
    /\ calls.draft + calls.retry + calls.metadata + calls.clean <= 6
    /\ Len(passes) <= 1 + calls.retry
    /\ \A i \in DOMAIN passes : Len(passes[i].urls) <= IF i = 1 THEN 60 ELSE 40
    /\ Len(probes) <= 60 + 40 * calls.retry

\* C18 witness: a finished run with 6 generation calls whose draft and
\* retry chunks held 61 URLs each: 60, 40 and 40 were probed
BoundedCallsWitness ==
    /\ pc = "done"
    /\ calls.draft + calls.retry + calls.metadata + calls.clean = 6
    /\ Len(draft) = 61 /\ Len(retry_chunk) = 61
    /\ Len(passes) = 3 /\ Len(passes[1].urls) = 60
    /\ Len(passes[2].urls) = 40 /\ Len(passes[3].urls) = 40
    /\ Len(probes) = 140

====
